---- MODULE Spec2Model ----
(***************************************************************************)
(* ReplayBuffer of fabricrl/data/buffers.py: a circular buffer of          *)
(* buffer_size rows by n_envs columns kept in a TensorDict, a write cursor *)
(* _pos and a flag _full.  add() writes a payload of data_len rows at the  *)
(* cursor, sample() draws rows per column and derives next_obs from the    *)
(* observations one row further.                                           *)
(***************************************************************************)
EXTENDS Integers, Sequences, FiniteSets, TLC

\* ---------------------------------------------------------------- bounds
BufferSize == 3
MaxBatch == 2
MaxRows == 4
MaxCap == 3

\* Payload lengths tried by add: up to one more than twice the capacity.
MaxLen == 2 * BufferSize + 1

Slots == 0 .. (BufferSize - 1)
\* torch.arange(n_envs) of the buffer under study, which has two columns
Envs == {0, 1}
NEnvs == Cardinality(Envs)
Keys == {"observations", "actions"}
\* batch sizes tried by sample: from -1 up to MaxBatch, and one more than
\* the capacity
BatchSizes == (-1 .. MaxBatch) \cup {BufferSize + 1}

VARIABLES
    buf,          \* _buf: key -> [slot -> [env -> value]]
    pos,          \* _pos
    full,         \* _full
    total,        \* number of rows written by the adds that returned
    asked,        \* number of rows passed to add so far, whether the call
                  \* returned or raised, counted up to BufferSize + 1
    last,         \* the last call: its operation, its argument (the payload's
                  \* batch shape or the batch size) and the error it raised
    batch_idxes,  \* the row indices drawn by the last sample that returned
    minibatch,    \* the TensorDict that sample returned, held by the trainer
    cli,          \* the last call of sheeprl.cli.run: its configuration, the
                  \* functions it reached, the warnings it emitted, the
                  \* error it raised and the entrypoint it launched
    mine,         \* MineDojoWrapper: _pos["pitch"], the module's ACTION_MAP
                  \* and the last action handed to the wrapped environment
    sized         \* a ReplayBuffer of any buffer_size: its _buffer_size,
                  \* _pos, _full, the rows written and its last call

vars == <<buf, pos, full, total, asked, last, batch_idxes, minibatch,
          cli, mine, sized>>

\* The state outside the ReplayBuffer under study.
others == <<cli, mine, sized>>

\* ----------------------------------------------------------------- values
\* The value of field k in the n-th row ever written, column e.  n = 0 is
\* the content of a slot no add has written (the zeros a new key is
\* created with).
Val(k, n, e) == [key |-> k, n |-> n, env |-> e]

EmptyTD == [k \in {} |-> 0]
NoBatch == [none |-> TRUE]
NoIdxes == <<>>

\* A payload TensorDict of batch size shape whose rows are the rows
\* first+1 .. first+shape[1] of the run.
TensorDictOf(keys, shape, first) ==
    [kind |-> "TensorDictBase",
     shape |-> shape,
     td |-> [k \in keys |->
               [t \in 1 .. shape[1] |->
                  [e \in 0 .. ((IF Len(shape) >= 2 THEN shape[2] ELSE 1) - 1) |->
                     Val(k, first + t, e)]]]]

NotATensorDict == [kind |-> "other", shape |-> <<>>, td |-> EmptyTD]

\* list(range(a, b))
Range(a, b) == [i \in 1 .. (IF b > a THEN b - a ELSE 0) |-> a + i - 1]

\* ------------------------------------------------------------------- add
\* The cursor is advanced without wrapping.
NextPosNoWrap(p, data_len) == p + data_len

\* lines 84-86
NextPos(p, data_len) ==
    LET next_pos == (p + data_len) % BufferSize
    IN  IF p = 0 /\ next_pos = 0 THEN data_len ELSE next_pos

\* lines 87-92
Idxes(p, next_pos) ==
    IF next_pos < p
    THEN Range(p, BufferSize) \o Range(0, next_pos)
    ELSE Range(p, next_pos)

\* The flag is set only when the write passes the last slot.
NewFullStrict(f, p, data_len) ==
    IF p + data_len > BufferSize THEN TRUE ELSE f

\* The flag is set one row early.
NewFullEarly(f, p, data_len) ==
    IF p + data_len >= BufferSize - 1 THEN TRUE ELSE f

\* lines 94-95
NewFull(f, p, data_len) ==
    IF p + data_len >= BufferSize THEN TRUE ELSE f

\* A payload with more columns than the buffer is accepted.
SetItemOkWider(idxes, data) ==
    /\ Len(data.shape) = 2
    /\ data.shape[1] = Len(idxes)
    /\ data.shape[2] >= NEnvs
    /\ \A i \in 1 .. Len(idxes) : idxes[i] \in Slots

\* self._buf[idxes, :] = data is accepted when the indexed batch size
\* [len(idxes), n_envs] equals the payload's and every index is a row of
\* the buffer.
SetItemOk(idxes, data) ==
    /\ data.shape = <<Len(idxes), NEnvs>>
    /\ \A i \in 1 .. Len(idxes) : idxes[i] \in Slots

\* The payload rows are written in reverse order.
RowOfReversed(idxes, s) ==
    Len(idxes) + 1 - (CHOOSE i \in 1 .. Len(idxes) : idxes[i] = s)

\* The slot's position in idxes (the payload row written there).
RowOf(idxes, s) == CHOOSE i \in 1 .. Len(idxes) : idxes[i] = s

\* The write also clears every row of the buffer it does not write.
SetItemClearing(b, idxes, data) ==
    LET written == {idxes[i] : i \in 1 .. Len(idxes)}
    IN  [k \in (DOMAIN b) \cup (DOMAIN data.td) |->
           [s \in Slots |->
              [e \in Envs |->
                 IF k \in DOMAIN data.td /\ s \in written
                 THEN data.td[k][RowOf(idxes, s)][e]
                 ELSE Val(k, 0, e)]]]

\* self._buf[idxes, :] = data: every key of the payload is written at the
\* rows idxes (a key the buffer does not have yet is created, zero
\* elsewhere); the other keys and rows are left alone.
SetItem(b, idxes, data) ==
    LET written == {idxes[i] : i \in 1 .. Len(idxes)}
    IN  [k \in (DOMAIN b) \cup (DOMAIN data.td) |->
           [s \in Slots |->
              [e \in Envs |->
                 IF k \in DOMAIN data.td /\ s \in written
                 THEN data.td[k][RowOf(idxes, s)][e]
                 ELSE IF k \in DOMAIN b THEN b[k][s][e] ELSE Val(k, 0, e)]]]

\* A payload row a raising call left in the buffer is no row of the run:
\* its number is kept below zero.
Unreturned(v) == [v EXCEPT !.n = 0 - v.n]

\* The rows of idxes before the first index that is no row of the buffer.
InRangePrefix(idxes) ==
    {i \in 1 .. Len(idxes) : \A j \in 1 .. i : idxes[j] \in Slots}

\* self._buf[idxes, :] = data stopped while writing key k: the key exists
\* (zero where it is new) and its rows before the first index outside the
\* buffer are written.
Torn(b, idxes, data, k) ==
    LET written == {idxes[i] : i \in InRangePrefix(idxes)}
    IN  [key \in (DOMAIN b) \cup {k} |->
           [s \in Slots |->
              [e \in Envs |->
                 IF key = k /\ s \in written
                 THEN Unreturned(data.td[k][RowOf(idxes, s)][e])
                 ELSE IF key \in DOMAIN b THEN b[key][s][e] ELSE Val(key, 0, e)]]]

\* The buffers a raising self._buf[idxes, :] = data can leave.  A payload
\* of another batch size is refused before anything is written.  With the
\* batch sizes equal and an index outside the buffer, the rows of each key
\* are written in turn until the index is met: the write of the first
\* key stops part-way, unless the indices are checked before the write.
SetItemRaised(b, idxes, data) ==
    IF data.shape # <<Len(idxes), NEnvs>>
    THEN {b}
    ELSE {b} \cup {Torn(b, idxes, data, k) : k \in DOMAIN data.td}

Call(op, shape, batch_size, err) ==
    [op |-> op, shape |-> shape, batch_size |-> batch_size, err |-> err]

Raise(call) ==
    /\ last' = call
    /\ UNCHANGED <<buf, pos, full, total, batch_idxes, minibatch>>

\* Every argument is taken for a TensorDict.
TypeOkAny(data) == TRUE

\* lines 74-77: the kinds of argument add accepts
TypeOk(data) == data.kind \in {"ReplayBuffer", "TensorDictBase"}

\* Only payloads of fewer than two batch dimensions are refused.
BadRankBelowTwo(shape) == Len(shape) < 2

\* line 78: the batch shapes add refuses
BadRank(shape) == Len(shape) # 2

\* lines 74-75: the TensorDict of the argument
BufferOf(arg) == IF arg.kind = "ReplayBuffer" THEN arg.buffer ELSE arg

\* The rows passed to add once arg is passed too.
Asked(arg) ==
    LET rows == IF Len(arg.shape) >= 1 THEN arg.shape[1] ELSE 0
    IN  IF asked + rows > BufferSize THEN BufferSize + 1 ELSE asked + rows

Add(arg) ==
    /\ asked' = Asked(arg)
    /\ IF ~TypeOk(arg)
       THEN Raise(Call("add", arg.shape, 0, "TypeError"))
       ELSE IF BadRank(BufferOf(arg).shape)
       THEN Raise(Call("add", BufferOf(arg).shape, 0, "RuntimeError"))
       ELSE LET data     == BufferOf(arg)
                data_len == data.shape[1]
                next_pos == NextPos(pos, data_len)
                idxes    == Idxes(pos, next_pos)
            IN  IF ~SetItemOk(idxes, data)
                THEN /\ buf' \in SetItemRaised(buf, idxes, data)
                     /\ last' = Call("add", data.shape, 0, "SetItemError")
                     /\ UNCHANGED <<pos, full, total, batch_idxes, minibatch>>
                ELSE /\ buf' = SetItem(buf, idxes, data)
                     /\ full' = NewFull(full, pos, data_len)
                     /\ pos' = next_pos
                     /\ total' = total + data_len
                     /\ last' = Call("add", data.shape, 0, "none")
                     /\ UNCHANGED <<batch_idxes, minibatch>>

\* add of a payload of data_len rows with the buffer's columns and fields
AddCall(data_len) == Add(TensorDictOf(Keys, <<data_len, NEnvs>>, total))

\* The payloads the collector passes: rows of every length up to MaxLen,
\* while fewer than MaxRows rows have been written.
AddRows ==
    \E data_len \in 1 .. MaxLen :
        /\ total < MaxRows
        /\ AddCall(data_len)
        /\ UNCHANGED others

\* Payloads of one and of three batch dimensions.
WrongRank ==
    {TensorDictOf(Keys, <<1>>, total),
     TensorDictOf(Keys, <<1, NEnvs, 1>>, total)}

\* Payloads of one or two rows with a column less or a column more than
\* the buffer.
WrongEnvs ==
    {TensorDictOf(Keys, <<data_len, n_envs>>, total) :
        data_len \in {1}, n_envs \in {NEnvs - 1, NEnvs + 1}}

\* Payloads of a wrong kind, rank or column count.
AddMalformed ==
    \E data \in {NotATensorDict} \cup WrongRank \cup WrongEnvs :
        Add(data) /\ UNCHANGED others

\* ---------------------------------------------------------------- sample
\* The upper end is drawn too.
RandintInclusive(low, high) == low .. high

\* The values torch.randint(low, high) can return.
Randint(low, high) == low .. (high - 1)

\* The drawn number is used as the index without the shift by the cursor.
BatchIdxNoShift(r) == r

\* lines 117-122: the index drawn for one cell from the random number r
BatchIdx(r) == IF full THEN (r + pos) % BufferSize ELSE r

\* The next observation is read from the drawn row itself.
NextRowSame(i) == i % BufferSize

\* line 128: the row holding the next observation of row i
NextRow(i) == (i + 1) % BufferSize

\* torch.gather(t, dim=0, index): out[i][e] = t[index[i][e]][e]
Gather(t, index) ==
    [i \in DOMAIN index |-> [e \in Envs |-> t[index[i][e]][e]]]

\* t[rows, cols] with rows of shape [batch, n_envs] and cols of shape
\* [n_envs]: out[i][e] = t[rows[i][e]][cols[e]]
AdvIndex(t, rows, cols) ==
    [i \in DOMAIN rows |-> [e \in Envs |-> t[rows[i][e]][cols[e]]]]

\* A cell of a tensor that shares the storage of the buffer: field k,
\* slot s, column e.
View(k, s, e) == [view |-> <<k, s, e>>]
IsView(c) == "view" \in DOMAIN c

\* What reading the cell c gives while the buffer holds b.
ReadCell(c, b) ==
    IF IsView(c) THEN b[c.view[1]][c.view[2]][c.view[3]] ELSE c

\* What reading the tensors of the TensorDict m gives while the buffer
\* holds b.
ReadBatch(m, b) ==
    [k \in DOMAIN m |->
       [i \in DOMAIN m[k] |-> [e \in Envs |-> ReadCell(m[k][i][e], b)]]]

\* t.clone(): a tensor with its own storage holding what t reads now
Clone(t) ==
    [i \in DOMAIN t |-> [e \in Envs |-> ReadCell(t[i][e], buf)]]

\* The minibatch is made of views of the buffer's rows: nothing is copied.
GetSamplesView(index) ==
    [k \in (DOMAIN buf) \cup {"next_obs"} |->
       [i \in DOMAIN index |->
          [e \in Envs |->
             IF k = "next_obs"
             THEN View("observations", (index[i][e] + 1) % BufferSize, e)
             ELSE View(k, index[i][e], e)]]]

\* lines 125-130
GetSamples(index) ==
    LET gathered == [k \in DOMAIN buf |-> Clone(Gather(buf[k], index))]
        next_obs == Clone(AdvIndex(buf["observations"],
                                   [i \in DOMAIN index |->
                                      [e \in Envs |-> NextRow(index[i][e])]],
                                   [e \in Envs |-> e]))
    IN  [k \in (DOMAIN buf) \cup {"next_obs"} |->
           IF k = "next_obs" THEN next_obs ELSE gathered[k]]

\* An empty buffer is drawn from at offsets from 1 as well.
DrawRangeFromOne(f, p, buffer_size) == <<1, IF f THEN buffer_size ELSE p>>

\* lines 117-122: the bounds handed to torch.randint
DrawRange(f, p, buffer_size) ==
    IF f THEN <<1, buffer_size>> ELSE <<0, p>>

\* Only batch sizes below one are refused.
BadBatchSizeNoUpper(batch_size) == batch_size <= 0

\* lines 111-114: the batch sizes sample refuses
BadBatchSize(batch_size) == batch_size <= 0 \/ batch_size > BufferSize

Sample(batch_size) ==
    /\ minibatch = NoBatch
    /\ UNCHANGED asked
    /\ IF BadBatchSize(batch_size)
       THEN Raise(Call("sample", <<>>, batch_size, "ValueError"))
       ELSE LET range == DrawRange(full, pos, BufferSize)
                low  == range[1]
                high == range[2]
            IN  IF Randint(low, high) = {}
                THEN Raise(Call("sample", <<>>, batch_size, "RuntimeError"))
                ELSE \E r \in [1 .. batch_size -> [Envs -> Randint(low, high)]] :
                       LET index == [i \in 1 .. batch_size |->
                                       [e \in Envs |-> BatchIdx(r[i][e])]]
                       IN  IF "observations" \notin DOMAIN buf
                           THEN Raise(Call("sample", <<>>, batch_size, "KeyError"))
                           ELSE /\ batch_idxes' = index
                                /\ minibatch' = GetSamples(index)
                                /\ last' = Call("sample", <<>>, batch_size, "none")
                                /\ UNCHANGED <<buf, pos, full, total>>

SampleAny ==
    \E batch_size \in BatchSizes : Sample(batch_size) /\ UNCHANGED others

\* The trainer is done with the minibatch it holds and drops it.
Release ==
    /\ minibatch # NoBatch
    /\ minibatch' = NoBatch
    /\ batch_idxes' = NoIdxes
    /\ UNCHANGED <<buf, pos, full, total, asked, last>>
    /\ UNCHANGED others

\* The trainer zeroes the minibatch it holds in place (minibatch.zero_()):
\* a cell with its own storage is zeroed, a cell that shares the buffer's
\* storage zeroes the buffer's cell.
Mutate ==
    /\ minibatch # NoBatch
    /\ LET shared(k, s, e) ==
               \E kk \in DOMAIN minibatch, i \in DOMAIN batch_idxes :
                  /\ IsView(minibatch[kk][i][e])
                  /\ minibatch[kk][i][e].view = <<k, s, e>>
       IN  /\ buf' = [k \in DOMAIN buf |->
                        [s \in Slots |->
                           [e \in Envs |->
                              IF shared(k, s, e)
                              THEN Val(k, 0, e) ELSE buf[k][s][e]]]]
           /\ minibatch' = [k \in DOMAIN minibatch |->
                              [i \in DOMAIN minibatch[k] |->
                                 [e \in Envs |->
                                    IF IsView(minibatch[k][i][e])
                                    THEN minibatch[k][i][e]
                                    ELSE Val(k, 0, e)]]]
    /\ last' = Call("zero_", <<>>, 0, "none")
    /\ UNCHANGED <<pos, full, total, asked, batch_idxes>>
    /\ UNCHANGED others

\* ---------------------------------------------------------- field access
\* The keys tried by field access: the name of a field the adds write, a
\* name no add writes, a tuple of names (a nested key) and an integer.
StrKeys == {[kind |-> "str", name |-> "observations"],
            [kind |-> "str", name |-> "rewards"]}
TupleKey == [kind |-> "tuple", name |-> "extra.x"]
IntKey == [kind |-> "int", name |-> "0"]

\* torch.zeros(buffer_size, n_envs), the tensor stored under the name k
ZerosOf(k) == [s \in Slots |-> [e \in Envs |-> Val(k, 0, e)]]

KeyCall(op, key, err) ==
    [op |-> op, shape |-> <<>>, batch_size |-> 0, err |-> err, key |-> key]

\* lines 132-135
GetItem(key) ==
    /\ last' = KeyCall("getitem", key,
                       IF key.kind # "str" THEN "TypeError"
                       ELSE IF key.name \notin DOMAIN buf THEN "KeyError"
                       ELSE "none")
    /\ UNCHANGED <<buf, pos, full, total, asked, batch_idxes, minibatch>>

\* TensorDict.set(key, t) with a name or with a tuple of names: the tensor
\* is stored under the key, the other fields are left alone.
TensorDictSet(b, key, t) ==
    [k \in (DOMAIN b) \cup {key.name} |-> IF k = key.name THEN t ELSE b[k]]

\* lines 137-138: the key is handed to TensorDict.set unchecked.  A name is
\* stored; a tuple of names is stored as a nested field by a tensordict
\* that has nested keys and refused with TypeError by one that has not.
SetItemKey(key, t) ==
    /\ \/ /\ key.kind \in {"str", "tuple"}
          /\ buf' = TensorDictSet(buf, key, t)
          /\ last' = KeyCall("setitem", key, "none")
       \/ /\ key.kind = "tuple"
          /\ buf' = buf
          /\ last' = KeyCall("setitem", key, "TypeError")
    /\ UNCHANGED <<pos, full, total, asked, batch_idxes, minibatch>>

GetItemAny ==
    \E key \in StrKeys \cup {TupleKey, IntKey} :
        GetItem(key) /\ UNCHANGED others

SetItemAny ==
    \E key \in StrKeys \cup {TupleKey} :
        SetItemKey(key, ZerosOf(key.name)) /\ UNCHANGED others

\* -------------------------------------------------------- sheeprl.cli.run
\* The tasks registry as run_algorithm and check_configs iterate it: the
\* modules in order, each with its registered algorithms and with whether
\* its utils module defines AGGREGATOR_KEYS.
Algo(name, entrypoint, decoupled) ==
    [name |-> name, entrypoint |-> entrypoint, decoupled |-> decoupled]

Tasks ==
    << [module |-> "sheeprl.algos.ppo", aggregator_keys |-> TRUE,
        algos |-> << Algo("ppo", "main", FALSE),
                     Algo("ppo_decoupled", "main", TRUE) >>],
       [module |-> "sheeprl.algos.sac_ae", aggregator_keys |-> TRUE,
        algos |-> << Algo("sac_ae", "main", FALSE) >>],
       [module |-> "sheeprl.algos.custom", aggregator_keys |-> FALSE,
        algos |-> << Algo("custom", "main", FALSE) >>] >>

\* The values of algo.name tried: the registered names and one that is not
\* registered.
AlgoNames == {"ppo", "ppo_decoupled", "sac_ae", "custom", "not_found"}

\* STRATEGY_REGISTRY.available_strategies()
AvailableStrategies == {"ddp", "ddp_spawn", "dp", "fsdp", "single_device"}

\* str.lower() of the strategy strings tried
Lower ==
    [x \in {"auto", "ddp", "DDP", "ddp_spawn", "dp", "FSDP", "my_ddp"} |->
       CASE x = "DDP" -> "ddp"
         [] x = "FSDP" -> "fsdp"
         [] OTHER -> x]

\* "ddp" in strategy, for the lowered strings
ContainsDDP(strategy) == strategy \in {"ddp", "ddp_spawn", "my_ddp"}

\* The classes a _target_ can name, each with the classes it is a subclass
\* of (itself included).
Bases ==
    [c \in {"DDPStrategy", "DeepSpeedStrategy", "DataParallelStrategy",
            "SingleDeviceStrategy", "Linear"} |->
       CASE c = "DDPStrategy" ->
              {"DDPStrategy", "ParallelStrategy", "Strategy"}
         [] c = "DeepSpeedStrategy" ->
              {"DeepSpeedStrategy", "DDPStrategy", "ParallelStrategy",
               "Strategy"}
         [] c = "DataParallelStrategy" ->
              {"DataParallelStrategy", "ParallelStrategy", "Strategy"}
         [] c = "SingleDeviceStrategy" ->
              {"SingleDeviceStrategy", "Strategy"}
         [] OTHER -> {"Linear", "Module"}]

\* issubclass(hydra.utils.get_class(target), base)
IsSubclass(target, base) == base \in Bases[target]

\* The values of fabric.strategy tried: a string, or a mapping with or
\* without a _target_.
StrStrategy(x) == [kind |-> "str", value |-> x]
TargetStrategy(c) == [kind |-> "dict", keys |-> {"_target_"}, target |-> c]
NoTargetStrategy == [kind |-> "dict", keys |-> {"devices"}, target |-> "none"]

Strategies ==
    {StrStrategy(x) : x \in DOMAIN Lower}
       \cup {TargetStrategy(c) : c \in DOMAIN Bases}
       \cup {NoTargetStrategy}

\* The configuration stored with a checkpoint (.hydra/config.yaml), or none
\* when checkpoint.resume_from is not set.
NoResume == [set |-> FALSE]
OldCfg(env_id, algo_name, strategy) ==
    [set |-> TRUE, env_id |-> env_id, algo_name |-> algo_name,
     strategy |-> strategy]

Cfg(env_id, algo_name, strategy, resume_from) ==
    [env_id |-> env_id, algo_name |-> algo_name, strategy |-> strategy,
     resume_from |-> resume_from]

CliIdle ==
    [cfg |-> Cfg("none", "none", StrStrategy("auto"), NoResume),
     called |-> <<>>, warnings |-> <<>>, err |-> "none", launched |-> "none"]

\* lines 21-44: the error resume_from_checkpoint raises, or "none"
ResumeError(cfg) ==
    IF cfg.resume_from.env_id # cfg.env_id THEN "ValueError: environment"
    ELSE IF cfg.resume_from.algo_name # cfg.algo_name
    THEN "ValueError: algorithm"
    ELSE "none"

\* lines 38-44: the configuration resume_from_checkpoint returns
Resumed(cfg) ==
    Cfg(cfg.resume_from.env_id, cfg.resume_from.algo_name,
        cfg.resume_from.strategy, cfg.resume_from)

\* The modules that register the algorithm, by their place in the registry.
Hits(algo_name) ==
    {i \in DOMAIN Tasks :
       \E j \in DOMAIN Tasks[i].algos : Tasks[i].algos[j].name = algo_name}

\* What the loops keep of module i for the algorithm: module, entrypoint
\* and decoupled of the first algorithm of that name (the break).
Kept(i, algo_name) ==
    LET first == CHOOSE x \in DOMAIN Tasks[i].algos :
                   /\ Tasks[i].algos[x].name = algo_name
                   /\ \A y \in DOMAIN Tasks[i].algos :
                         Tasks[i].algos[y].name = algo_name => x <= y
    IN  [module |-> Tasks[i].module, entry |-> Tasks[i].algos[first],
         aggregator_keys |-> Tasks[i].aggregator_keys]

\* module = None, entrypoint = None, decoupled = False
NotFound ==
    [module |-> "none", entry |-> Algo("none", "none", FALSE),
     aggregator_keys |-> FALSE]

\* The loop variables are kept instead of the match: a name that is not
\* registered is run as the last algorithm iterated.
LookupLoopVariable(algo_name) ==
    LET hits == Hits(algo_name)
    IN  IF hits = {}
        THEN [module |-> Tasks[Len(Tasks)].module,
              entry |-> Tasks[Len(Tasks)].algos[Len(Tasks[Len(Tasks)].algos)],
              aggregator_keys |-> Tasks[Len(Tasks)].aggregator_keys]
        ELSE Kept(CHOOSE x \in hits : \A y \in hits : x >= y, algo_name)

\* lines 57-67 and 147-153: the loops over the registry.  The break leaves
\* the inner loop only, so the last module that has the algorithm is kept.
Lookup(algo_name) ==
    LET hits == Hits(algo_name)
    IN  IF hits = {} THEN NotFound
        ELSE Kept(CHOOSE x \in hits : \A y \in hits : x >= y, algo_name)

\* Any string that contains "ddp" counts as a DDP strategy.
DDPStringUnregistered(strategy) == ContainsDDP(strategy)

\* lines 159 and 177: strategy in available_strategies and "ddp" in strategy
DDPString(strategy) ==
    strategy \in AvailableStrategies /\ ContainsDDP(strategy)

\* Only a string that is no registered strategy is warned about.
WarnedStringUnregistered(strategy) ==
    strategy # "auto" /\ strategy \notin AvailableStrategies

\* line 177
WarnedString(strategy) == strategy # "auto" /\ ~DDPString(strategy)

\* lines 165-169 and 185-189: the mapping names a _target_ that is a
\* Strategy and a subclass of none of the allowed classes
UnsupportedTarget(strategy, allowed) ==
    /\ "_target_" \in strategy.keys
    /\ IsSubclass(strategy.target, "Strategy")
    /\ \A base \in allowed : ~IsSubclass(strategy.target, base)

\* lines 141-197: the error check_configs raises and the warnings it emits
CheckConfigs(cfg) ==
    LET decoupled == Lookup(cfg.algo_name).entry.decoupled
        strategy == cfg.strategy
    IN  IF decoupled
        THEN IF strategy.kind = "str"
             THEN IF ~DDPString(Lower[strategy.value])
                  THEN [err |-> "ValueError: decoupled algorithm",
                        warnings |-> <<>>]
                  ELSE [err |-> "none", warnings |-> <<>>]
             ELSE IF UnsupportedTarget(strategy, {"DDPStrategy"})
                  THEN [err |-> "ValueError: decoupled algorithms",
                        warnings |-> <<>>]
                  ELSE [err |-> "none", warnings |-> <<>>]
        ELSE IF strategy.kind = "str"
             THEN IF WarnedString(Lower[strategy.value])
                  THEN [err |-> "none",
                        warnings |-> <<"UserWarning: strategy string">>]
                  ELSE [err |-> "none", warnings |-> <<>>]
             ELSE IF UnsupportedTarget(strategy, {"DDPStrategy",
                                                  "SingleDeviceStrategy"})
                  THEN [err |-> "none",
                        warnings |-> <<"UserWarning: strategy class">>]
                  ELSE [err |-> "none", warnings |-> <<>>]

\* lines 47-138: the error run_algorithm raises, the warnings it emits and
\* the entrypoint it launches.  instantiated tells whether
\* hydra.utils.instantiate(cfg.fabric, ...) returned a Fabric or raised.
RunAlgorithm(cfg, instantiated) ==
    LET found == Lookup(cfg.algo_name)
        sac_ae == IF ~found.entry.decoupled /\ found.module = "sheeprl.algos.sac_ae"
                  THEN <<"UserWarning: SAC-AE strategy">> ELSE <<>>
        metric == IF ~found.aggregator_keys
                  THEN <<"UserWarning: AGGREGATOR_KEYS">> ELSE <<>>
    IN  IF found.module = "none"
        THEN [err |-> "RuntimeError: no module", warnings |-> <<>>,
              launched |-> "none"]
        ELSE IF found.entry.entrypoint = "none"
        THEN [err |-> "RuntimeError: no entrypoint", warnings |-> <<>>,
              launched |-> "none"]
        ELSE IF ~instantiated
        THEN [err |-> "instantiate", warnings |-> sac_ae,
              launched |-> "none"]
        ELSE [err |-> "none", warnings |-> sac_ae \o metric,
              launched |-> found.entry.name]

\* lines 200-209: one call of run
Run(env_id, algo_name, strategy, resume_from, instantiated) ==
    LET cfg == Cfg(env_id, algo_name, strategy, resume_from)
        resume_err == IF cfg.resume_from.set THEN ResumeError(cfg) ELSE "none"
        resumed == IF cfg.resume_from.set THEN Resumed(cfg) ELSE cfg
        checked == CheckConfigs(resumed)
        ran == RunAlgorithm(resumed, instantiated)
    IN  /\ cli' =
             IF resume_err # "none"
             THEN [cfg |-> cfg, called |-> <<"resume_from_checkpoint">>,
                   warnings |-> <<>>, err |-> resume_err,
                   launched |-> "none"]
             ELSE IF checked.err # "none"
             THEN [cfg |-> resumed,
                   called |-> (IF cfg.resume_from.set
                               THEN <<"resume_from_checkpoint">> ELSE <<>>)
                              \o <<"check_configs">>,
                   warnings |-> checked.warnings, err |-> checked.err,
                   launched |-> "none"]
             ELSE [cfg |-> resumed,
                   called |-> (IF cfg.resume_from.set
                               THEN <<"resume_from_checkpoint">> ELSE <<>>)
                              \o <<"check_configs", "run_algorithm">>,
                   warnings |-> checked.warnings \o ran.warnings,
                   err |-> ran.err, launched |-> ran.launched]
        /\ UNCHANGED <<buf, pos, full, total, asked, last, batch_idxes,
                       minibatch, mine, sized>>

\* The environments and the stored configurations tried with
\* checkpoint.resume_from.
EnvIds == {"CartPole-v1", "dummy"}

OldCfgs ==
    {OldCfg(env_id, algo_name, strategy) :
        env_id \in EnvIds, algo_name \in {"ppo", "ppo_decoupled", "not_found"},
        strategy \in {StrStrategy("auto"), StrStrategy("ddp"),
                      StrStrategy("dp")}}

RunAny ==
    \E algo_name \in AlgoNames, strategy \in Strategies,
       resume_from \in {NoResume} \cup OldCfgs, instantiated \in BOOLEAN :
        Run("CartPole-v1", algo_name, strategy, resume_from, instantiated)

\* ------------------------------------------------ payloads of other kinds
\* Payloads of one or two rows that carry the observations only.
PartialPayloads ==
    {TensorDictOf({"observations"}, <<data_len, NEnvs>>, total) :
        data_len \in {1, 2}}

AddPartial ==
    \E data \in PartialPayloads :
        /\ total < MaxRows
        /\ Add(data)
        /\ UNCHANGED others

\* Another ReplayBuffer of buffer_size rows of which the first written have
\* been written (its _pos is written, or 0 with _full set): its buffer
\* property is the whole TensorDict, zero where nothing was written.
SourceBuffer(buffer_size, written) ==
    [kind |-> "ReplayBuffer",
     shape |-> <<buffer_size, NEnvs>>,
     written |-> written,
     buffer |-> [kind |-> "TensorDictBase",
                 shape |-> <<buffer_size, NEnvs>>,
                 td |-> [k \in Keys |->
                           [t \in 1 .. buffer_size |->
                              [e \in Envs |->
                                 IF t <= written THEN Val(k, total + t, e)
                                 ELSE Val(k, 0, e)]]]]]

\* Source buffers of two rows, with one row or both rows written.
SourceBuffers == {SourceBuffer(2, written) : written \in {1, 2}}

AddBuffer ==
    \E data \in SourceBuffers :
        /\ total < MaxRows
        /\ Add(data)
        /\ UNCHANGED others

\* ------------------------------------------- ReplayBuffer of any capacity
\* lines 20-27
NewSized(buffer_size) ==
    [buffer_size |-> buffer_size, pos |-> 0, full |-> FALSE, rows |-> 0,
     last |-> [op |-> "init", arg |-> 0, err |-> "none"]]

\* lines 84-86
SizedNextPos(buffer_size, p, data_len) ==
    LET next_pos == (p + data_len) % buffer_size
    IN  IF p = 0 /\ next_pos = 0 THEN data_len ELSE next_pos

\* lines 87-92
SizedIdxes(buffer_size, p, next_pos) ==
    IF next_pos < p
    THEN Range(p, buffer_size) \o Range(0, next_pos)
    ELSE Range(p, next_pos)

\* lines 64-96 for a payload of data_len rows with the buffer's columns
SizedAdd(data_len) ==
    LET next_pos == SizedNextPos(sized.buffer_size, sized.pos, data_len)
        idxes == SizedIdxes(sized.buffer_size, sized.pos, next_pos)
        accepted == /\ Len(idxes) = data_len
                    /\ \A i \in 1 .. Len(idxes) :
                          idxes[i] \in 0 .. (sized.buffer_size - 1)
    IN  /\ sized.rows < MaxRows
        /\ sized' =
             IF accepted
             THEN [sized EXCEPT
                     !.full = IF sized.pos + data_len >= sized.buffer_size
                              THEN TRUE ELSE sized.full,
                     !.pos = next_pos,
                     !.rows = sized.rows + data_len,
                     !.last = [op |-> "add", arg |-> data_len, err |-> "none"]]
             ELSE [sized EXCEPT
                     !.last = [op |-> "add", arg |-> data_len,
                               err |-> "SetItemError"]]
        /\ UNCHANGED <<buf, pos, full, total, asked, last, batch_idxes,
                       minibatch, cli, mine>>

\* lines 98-123: sample returns a minibatch unless the batch size is
\* refused or the draw range is empty
SizedSample(batch_size) ==
    LET range == DrawRange(sized.full, sized.pos, sized.buffer_size)
        err == IF batch_size <= 0 \/ batch_size > sized.buffer_size
               THEN "ValueError"
               ELSE IF Randint(range[1], range[2]) = {} THEN "RuntimeError"
               ELSE "none"
    IN  /\ sized' = [sized EXCEPT
                       !.last = [op |-> "sample", arg |-> batch_size,
                                 err |-> err]]
        /\ UNCHANGED <<buf, pos, full, total, asked, last, batch_idxes,
                       minibatch, cli, mine>>

SizedAddAny == \E data_len \in 1 .. (MaxCap + 1) : SizedAdd(data_len)

SizedSampleAny == \E batch_size \in 0 .. (MaxCap + 1) : SizedSample(batch_size)

\* -------------------------------------------------------- MineDojoWrapper
\* lines 10-24
ACTION_MAP ==
    [a \in 0 .. 12 |->
       CASE a = 0 -> <<0, 0, 0, 12, 12, 0, 0, 0>>
         [] a = 1 -> <<1, 0, 0, 12, 12, 0, 0, 0>>
         [] a = 2 -> <<2, 0, 0, 12, 12, 0, 0, 0>>
         [] a = 3 -> <<0, 1, 0, 12, 12, 0, 0, 0>>
         [] a = 4 -> <<0, 2, 0, 12, 12, 0, 0, 0>>
         [] a = 5 -> <<1, 0, 1, 12, 12, 0, 0, 0>>
         [] a = 6 -> <<1, 0, 2, 12, 12, 0, 0, 0>>
         [] a = 7 -> <<1, 0, 3, 12, 12, 0, 0, 0>>
         [] a = 8 -> <<0, 0, 0, 11, 12, 0, 0, 0>>
         [] a = 9 -> <<0, 0, 0, 13, 12, 0, 0, 0>>
         [] a = 10 -> <<0, 0, 0, 12, 11, 0, 0, 0>>
         [] a = 11 -> <<0, 0, 0, 12, 13, 0, 0, 0>>
         [] OTHER -> <<0, 0, 0, 12, 12, 3, 0, 0>>]

\* line 33: pitch_limits
PitchLimits == <<-60, 60>>

\* start_position["pitch"] of the wrapper under study
StartPitch == 0

\* action[3] of the source is the fourth component
PitchOf(action) == action[4]

\* The pitch the wrapped environment reports after the action: the camera
\* turns by 15 degrees for each step away from 12.
EnvPitch(pitch, action) == pitch + (PitchOf(action) - 12) * 15

\* lines 28-59
NewMine ==
    [pitch |-> StartPitch, action_map |-> ACTION_MAP, sent |-> <<>>,
     index |-> -1]

\* lines 83-97: _convert_action returns the array stored in ACTION_MAP
\* itself, so action[3] = 12 is a write to the entry of the map.
Step(a) ==
    LET action == mine.action_map[a]
        next_pitch == mine.pitch + (PitchOf(action) - 12) * 15
        outside == ~(PitchLimits[1] <= next_pitch /\ next_pitch <= PitchLimits[2])
        sent == IF outside THEN [action EXCEPT ![4] = 12] ELSE action
    IN  /\ mine' = [pitch |-> EnvPitch(mine.pitch, sent),
                    action_map |-> [mine.action_map EXCEPT ![a] = sent],
                    sent |-> sent,
                    index |-> a]
        /\ UNCHANGED <<buf, pos, full, total, asked, last, batch_idxes,
                       minibatch, cli, sized>>

StepAny == \E a \in DOMAIN ACTION_MAP : Step(a)

\* lines 99-110: the wrapped environment starts again at the start position
Reset ==
    /\ mine' = [mine EXCEPT !.pitch = StartPitch, !.sent = <<>>, !.index = -1]
    /\ UNCHANGED <<buf, pos, full, total, asked, last, batch_idxes,
                   minibatch, cli, sized>>

\* ------------------------------------------------------------ specification
\* lines 20-27
Init ==
    /\ buf = EmptyTD
    /\ pos = 0
    /\ full = FALSE
    /\ total = 0
    /\ asked = 0
    /\ last = Call("init", <<>>, 0, "none")
    /\ batch_idxes = NoIdxes
    /\ minibatch = NoBatch
    /\ cli = CliIdle
    /\ mine = NewMine
    /\ sized = NewSized(BufferSize)

Next == AddRows \/ AddMalformed \/ SampleAny \/ Release

Spec == Init /\ [][Next]_vars

\* The collector and a trainer that also writes to the minibatch it holds.
NextTrainer == AddRows \/ SampleAny \/ Release \/ Mutate

SpecTrainer == Init /\ [][NextTrainer]_vars

\* The collector and a caller that reads and writes whole fields by key.
NextAccess == AddRows \/ GetItemAny \/ SetItemAny

SpecAccess == Init /\ [][NextAccess]_vars

\* The command line: calls of run with every configuration tried.
NextCli == RunAny

SpecCli == Init /\ [][NextCli]_vars

\* The collector passing payloads of every kind add accepts.
NextPayload == AddRows \/ AddPartial \/ AddBuffer

SpecPayload == Init /\ [][NextPayload]_vars

\* A buffer of every capacity from 1 to MaxCap.
InitSized ==
    /\ buf = EmptyTD
    /\ pos = 0
    /\ full = FALSE
    /\ total = 0
    /\ asked = 0
    /\ last = Call("init", <<>>, 0, "none")
    /\ batch_idxes = NoIdxes
    /\ minibatch = NoBatch
    /\ cli = CliIdle
    /\ mine = NewMine
    /\ \E buffer_size \in 1 .. MaxCap : sized = NewSized(buffer_size)

NextSized == SizedAddAny \/ SizedSampleAny

SpecSized == InitSized /\ [][NextSized]_vars

\* The agent stepping and resetting the MineDojo environment.
NextMine == StepAny \/ Reset

SpecMine == Init /\ [][NextMine]_vars

\* ------------------------------------------------------------------ claims
\* The last call was an add of a well-formed payload that returned.
AddReturned == last.op = "add" /\ last.err = "none"

\* The last call was an add of a payload of two batch dimensions with the
\* buffer's column count.
AddOfRows == last.op = "add" /\ Len(last.shape) = 2 /\ last.shape[2] = NEnvs

\* This step is a call of add with a payload of batch size shape (the
\* argument that is no TensorDict has the empty shape).
AddStep(shape) ==
    last'.op = "add" /\ last'.shape = shape /\ minibatch' = minibatch

\* This step is a sample call that returns a minibatch.
SampleReturns == minibatch = NoBatch /\ minibatch' # NoBatch

\* The state right after a sample call that returned a minibatch.
SampleReturned == last.op = "sample" /\ last.err = "none" /\ minibatch # NoBatch

\* C1: after every step, full is true exactly when the rows written so far
\* number at least BufferSize, and a step never takes full from true to false.
C1_FullOnceCapacityReached ==
    [][(full' <=> total' >= BufferSize) /\ (full => full')]_vars

\* An add that returned on a buffer that was already full.
C1_Witness == full /\ total > BufferSize /\ AddReturned

\* C2: the cursor is always a slot index, 0 <= pos < BufferSize.
C2_PosBelowCapacity == pos \in Slots

\* C3: no row index drawn by a sample call that returns, in any column,
\* equals the cursor.
C3_SampleNeverDrawsPos ==
    [][SampleReturns =>
         \A i \in DOMAIN batch_idxes' : \A e \in Envs :
            batch_idxes'[i][e] # pos]_vars

\* A sample that returned from a full buffer whose cursor is not at slot 0
\* and that drew a slot below the cursor.
C3_Witness ==
    /\ SampleReturned /\ full /\ pos \in 1 .. (BufferSize - 1)
    /\ \E i \in DOMAIN batch_idxes : \E e \in Envs : batch_idxes[i][e] < pos

\* C4: in the minibatch a sample call returns, next_obs at every drawn
\* (row r, column c) is the buffer's observations at row (r+1) mod
\* BufferSize, column c, as stored when sample was called.
C4_NextObsIsNextRow ==
    [][SampleReturns =>
         \A i \in DOMAIN batch_idxes' : \A e \in Envs :
            minibatch'["next_obs"][i][e] =
               buf["observations"][(batch_idxes'[i][e] + 1) % BufferSize][e]]_vars

\* A sample that drew the last slot in one column (its next row wraps to
\* slot 0) and another slot in the other column.
C4_Witness ==
    /\ SampleReturned /\ full
    /\ \E i \in DOMAIN batch_idxes :
          /\ batch_idxes[i][0] = BufferSize - 1
          /\ batch_idxes[i][1] # BufferSize - 1
          /\ minibatch["next_obs"][i][0] = buf["observations"][0][0]

\* C5: on a buffer that has received exactly BufferSize rows, add of k rows
\* (0 < k < BufferSize) returns, writes the k rows in order to slots 0..k-1,
\* leaves slots k..BufferSize-1 as they were and leaves pos = k.
C5_WrapAfterFill ==
    [][\A k \in 1 .. (BufferSize - 1) :
         (total = BufferSize /\ AddStep(<<k, NEnvs>>)) =>
            /\ last'.err = "none"
            /\ pos' = k
            /\ \A key \in Keys : \A e \in Envs :
                  /\ \A s \in 0 .. (k - 1) :
                        buf'[key][s][e] = Val(key, BufferSize + s + 1, e)
                  /\ \A s \in k .. (BufferSize - 1) :
                        buf'[key][s][e] = buf[key][s][e]]_vars

\* The state after two rows were added to a buffer filled by one add of
\* BufferSize rows.
C5_Witness ==
    /\ total = BufferSize + 2 /\ AddReturned /\ last.shape[1] = 2 /\ pos = 2
    /\ \A key \in Keys : \A e \in Envs : buf[key][2][e] = Val(key, 3, e)

\* C6 as stated: while at most BufferSize rows have been written, full is
\* false.
C6_FullFalseUpToCapacity == total <= BufferSize => ~full

\* C6 amended: while fewer than BufferSize rows have been written, full is
\* false.
C6_FullFalseBelowCapacity == total < BufferSize => ~full

\* An add returned and left the buffer one row short of its capacity.
C6_Witness == total = BufferSize - 1 /\ AddReturned /\ ~full

\* C7: while the add calls made so far have passed at most BufferSize rows,
\* slot i of every field and column holds the (i+1)-th row written, for
\* every i below the number of rows written.
C7_RowsInOrderBeforeWrap ==
    asked <= BufferSize =>
       \A key \in Keys : \A i \in 0 .. (total - 1) : \A e \in Envs :
          buf[key][i][e] = Val(key, i + 1, e)

\* The buffer was filled to its capacity by several adds, the last one of
\* two rows.
C7_Witness ==
    asked = BufferSize /\ total = BufferSize /\ AddReturned /\ last.shape[1] = 2 /\ pos = 0

\* C8: when full, slot pos holds the oldest retained row of every field and
\* column, and the slots walked forward from pos modulo BufferSize hold the
\* retained rows in the order they were written.
C8_OldestAtPos ==
    full =>
       /\ pos \in Slots
       /\ \A key \in Keys : \A e \in Envs : \A j \in 0 .. (BufferSize - 1) :
             buf[key][(pos + j) % BufferSize][e] =
                Val(key, total - BufferSize + 1 + j, e)

\* C9: an add of a payload whose length is a multiple of BufferSize returns
\* and leaves full true, whatever the cursor was.
C9_ExactMultipleFills ==
    (AddOfRows /\ last.shape[1] % BufferSize = 0) => (last.err = "none" /\ full)

\* C10: an add of a payload longer than BufferSize returns, leaves full
\* true and leaves the last BufferSize rows written in the buffer.
C10_LongPayloadHandled ==
    (AddOfRows /\ last.shape[1] > BufferSize) =>
       /\ last.err = "none"
       /\ full
       /\ \A key \in Keys : \A e \in Envs :
             {buf[key][s][e] : s \in Slots} =
                {Val(key, n, e) : n \in (total - BufferSize + 1) .. total}

\* C11: an add leaves what the held minibatch reads, next_obs included, as
\* it was, and a write to the held minibatch leaves every buffer slot as it
\* was.
C11_MinibatchIndependent ==
    [][/\ (minibatch # NoBatch /\ minibatch' # NoBatch /\ last'.op = "add") =>
            ReadBatch(minibatch', buf') = ReadBatch(minibatch, buf)
       /\ (last'.op = "zero_") => buf' = buf]_vars

\* A minibatch is held and a later add has overwritten a row it was drawn
\* from.
C11_Witness ==
    /\ minibatch # NoBatch /\ AddReturned
    /\ \E i \in DOMAIN batch_idxes : \E e \in Envs :
          /\ minibatch["observations"][i][e].n > 0
          /\ buf["observations"][batch_idxes[i][e]][e].n >
                minibatch["observations"][i][e].n

\* C12: sample with a batch size below one or above BufferSize raises
\* ValueError, returns no minibatch and leaves pos, full and every slot as
\* they were.
C12_BadBatchSizeRaises ==
    [][\A batch_size \in BatchSizes :
         ((batch_size <= 0 \/ batch_size > BufferSize) /\ Sample(batch_size)) =>
            /\ last'.err = "ValueError"
            /\ minibatch' = NoBatch
            /\ UNCHANGED <<buf, pos, full>>]_vars

\* sample(BufferSize + 1) was refused on a full buffer.
C12_Witness ==
    /\ last.op = "sample" /\ last.batch_size = BufferSize + 1
    /\ last.err = "ValueError" /\ full /\ minibatch = NoBatch

\* C13: sample with a batch size from 1 to BufferSize on a buffer nothing
\* was written to (pos = 0, full false) raises the error of the empty draw
\* range and returns no minibatch.
C13_EmptyBufferRaises ==
    [][\A batch_size \in 1 .. BufferSize :
         (pos = 0 /\ ~full /\ Sample(batch_size)) =>
            /\ last'.err = "RuntimeError"
            /\ minibatch' = NoBatch
            /\ UNCHANGED <<buf, pos, full>>]_vars

\* sample(1) was refused on the buffer nothing was written to.
C13_Witness ==
    /\ last.op = "sample" /\ last.batch_size = 1 /\ last.err = "RuntimeError"
    /\ total = 0 /\ pos = 0 /\ ~full /\ minibatch = NoBatch

\* C14: add of a payload whose column count differs from the buffer's
\* raises at the write and leaves pos, full and every slot as they were.
C14_WrongEnvsRaises ==
    [][\A n_envs \in {NEnvs - 1, NEnvs + 1} :
         AddStep(<<1, n_envs>>) =>
            /\ last'.err = "SetItemError"
            /\ UNCHANGED <<buf, pos, full, total>>]_vars

\* A payload with one column more than the buffer was refused after rows
\* had been written.
C14_Witness ==
    /\ last.op = "add" /\ last.shape = <<1, NEnvs + 1>>
    /\ last.err = "SetItemError" /\ total > 0

\* C15: add of a payload of one or of three batch dimensions raises
\* RuntimeError and leaves pos, full and every slot as they were.
C15_WrongRankRaises ==
    [][\A shape \in {<<1>>, <<1, NEnvs, 1>>} :
         AddStep(shape) =>
            /\ last'.err = "RuntimeError"
            /\ UNCHANGED <<buf, pos, full, total>>]_vars

\* A payload of three batch dimensions was refused after rows had been
\* written.
C15_Witness ==
    /\ last.op = "add" /\ Len(last.shape) = 3
    /\ last.err = "RuntimeError" /\ total > 0

\* C16: add of an argument that is neither a TensorDict nor a ReplayBuffer
\* raises TypeError and leaves pos, full and every slot as they were.
C16_WrongTypeRaises ==
    [][AddStep(NotATensorDict.shape) =>
         /\ last'.err = "TypeError"
         /\ UNCHANGED <<buf, pos, full, total>>]_vars

\* An argument of another kind was refused after rows had been written.
C16_Witness ==
    last.op = "add" /\ last.err = "TypeError" /\ total > 0

\* C17: an add that raises leaves pos, full and every slot as they were.
C17_AddAllOrNothing ==
    [][\A data_len \in 1 .. MaxLen :
         (AddStep(<<data_len, NEnvs>>) /\ last'.err # "none") =>
            UNCHANGED <<buf, pos, full>>]_vars

\* C18: an add of at most BufferSize rows that returns (a step that raises
\* total by the payload's length) changes no slot other than the slots
\* (pos + i) % BufferSize for i below the payload's length; a field the add
\* creates is zero in the other slots.
C18_OnlyWrittenSlotsChange ==
    [][(total' > total /\ total' - total <= BufferSize) =>
         LET data_len == total' - total
             written == {(pos + i) % BufferSize : i \in 0 .. data_len - 1}
         IN  /\ last'.op = "add" /\ last'.shape = <<data_len, NEnvs>>
             /\ \A k \in DOMAIN buf' : \A s \in Slots \ written :
                   buf'[k][s] = IF k \in DOMAIN buf THEN buf[k][s]
                                ELSE [e \in Envs |-> Val(k, 0, e)]]_vars

\* An add of two rows wrapped around the end of a buffer of three slots
\* or more and the slot it did not reach still holds the second row of the
\* run.
C18_Witness ==
    /\ AddReturned /\ last.shape[1] = 2 /\ full /\ pos = 1
    /\ buf["observations"][0][0].n = total
    /\ buf["observations"][1][0].n = 2

\* C19: while full is false, a sample that returns has drawn only rows
\* below pos and has read next_obs only from rows below pos.
C19_NoReadAtOrAfterPos ==
    (SampleReturned /\ ~full) =>
       \A i \in DOMAIN batch_idxes : \A e \in Envs :
          /\ batch_idxes[i][e] < pos
          /\ (batch_idxes[i][e] + 1) % BufferSize < pos

\* C20: reading or writing a field with a key that is not a string raises
\* TypeError and leaves the table as it was.
C20_NonStringKeyRaises ==
    [][\A key \in {TupleKey, IntKey} :
         (GetItem(key) \/ SetItemKey(key, ZerosOf(key.name))) =>
            /\ last'.err = "TypeError"
            /\ UNCHANGED buf]_vars

\* run has called the function f.
Reached(f) == \E i \in DOMAIN cli.called : cli.called[i] = f

\* C21 as stated: a call of run with an algo.name that is not registered
\* raises the RuntimeError of the missing module and launches nothing.
C21_UnregisteredRaises ==
    (cli.called # <<>> /\ cli.cfg.algo_name = "not_found") =>
       cli.err = "RuntimeError: no module" /\ cli.launched = "none"

\* C21 amended: a call of run with an algo.name that is not registered, in
\* which resume_from_checkpoint is not called or returns, reaches
\* run_algorithm, raises the RuntimeError of the missing module there and
\* launches nothing.
C21_UnregisteredRaisesAfterResume ==
    (/\ cli.called # <<>>
     /\ cli.cfg.algo_name = "not_found"
     /\ cli.err \notin {"ValueError: environment", "ValueError: algorithm"}) =>
       /\ Reached("run_algorithm")
       /\ cli.err = "RuntimeError: no module"
       /\ cli.launched = "none"

\* run was called with a name that is not registered and the strategy dp:
\* check_configs warned, run_algorithm raised.
C21_Witness ==
    /\ cli.cfg.algo_name = "not_found"
    /\ cli.cfg.strategy = StrStrategy("dp")
    /\ cli.warnings = <<"UserWarning: strategy string">>
    /\ cli.err = "RuntimeError: no module"

\* C22: when check_configs is reached for a decoupled algorithm with a
\* strategy string that is not a registered strategy containing "ddp", or
\* with a _target_ that is a Strategy and no subclass of DDPStrategy, run
\* raises the ValueError of check_configs, run_algorithm is not called and
\* nothing is launched.
C22_DecoupledNeedsDDP ==
    (/\ Reached("check_configs")
     /\ cli.cfg.algo_name = "ppo_decoupled"
     /\ \/ /\ cli.cfg.strategy.kind = "str"
           /\ ~(/\ Lower[cli.cfg.strategy.value] \in AvailableStrategies
                /\ ContainsDDP(Lower[cli.cfg.strategy.value]))
        \/ /\ cli.cfg.strategy.kind = "dict"
           /\ "_target_" \in cli.cfg.strategy.keys
           /\ IsSubclass(cli.cfg.strategy.target, "Strategy")
           /\ ~IsSubclass(cli.cfg.strategy.target, "DDPStrategy")) =>
       /\ cli.err \in {"ValueError: decoupled algorithm",
                       "ValueError: decoupled algorithms"}
       /\ ~Reached("run_algorithm")
       /\ cli.launched = "none"

\* run was called for the decoupled algorithm with the _target_
\* DataParallelStrategy and check_configs raised.
C22_Witness ==
    /\ cli.cfg.algo_name = "ppo_decoupled"
    /\ cli.cfg.strategy = TargetStrategy("DataParallelStrategy")
    /\ cli.err = "ValueError: decoupled algorithms"
    /\ cli.called = <<"check_configs">>

\* C23: when check_configs is reached for an algorithm that is not
\* decoupled it does not raise and run_algorithm is called; with a strategy
\* string other than "auto" that is not a registered strategy containing
\* "ddp", or with a _target_ that is a Strategy and a subclass of neither
\* DDPStrategy nor SingleDeviceStrategy, the first warning of the run is the
\* UserWarning of check_configs.
C23_CoupledWarns ==
    (Reached("check_configs") /\ cli.cfg.algo_name # "ppo_decoupled") =>
       /\ Reached("run_algorithm")
       /\ (/\ cli.cfg.strategy.kind = "str"
           /\ Lower[cli.cfg.strategy.value] # "auto"
           /\ ~(/\ Lower[cli.cfg.strategy.value] \in AvailableStrategies
                /\ ContainsDDP(Lower[cli.cfg.strategy.value]))) =>
             /\ cli.warnings # <<>>
             /\ cli.warnings[1] = "UserWarning: strategy string"
       /\ (/\ cli.cfg.strategy.kind = "dict"
           /\ "_target_" \in cli.cfg.strategy.keys
           /\ IsSubclass(cli.cfg.strategy.target, "Strategy")
           /\ ~IsSubclass(cli.cfg.strategy.target, "DDPStrategy")
           /\ ~IsSubclass(cli.cfg.strategy.target, "SingleDeviceStrategy")) =>
             /\ cli.warnings # <<>>
             /\ cli.warnings[1] = "UserWarning: strategy class"

\* run was called for sac_ae with the strategy dp: the warning of
\* check_configs came first, the one of run_algorithm second, and the
\* entrypoint was launched.
C23_Witness ==
    /\ cli.cfg.algo_name = "sac_ae"
    /\ cli.cfg.strategy = StrStrategy("dp")
    /\ cli.warnings = <<"UserWarning: strategy string",
                        "UserWarning: SAC-AE strategy">>
    /\ cli.launched = "sac_ae"

\* C24: in every minibatch sample returns, the next_obs of a drawn (row,
\* column) is the observation of the row written right after the drawn row:
\* the drawn row is the n-th row of the run and next_obs the (n+1)-th.
C24_NextObsIsNextWritten ==
    SampleReturned =>
       \A i \in DOMAIN batch_idxes : \A e \in Envs :
          /\ minibatch["observations"][i][e].n > 0
          /\ minibatch["next_obs"][i][e].n =
                minibatch["observations"][i][e].n + 1

\* lines 117-122: the rows sample can draw in a column in this state
DrawSet ==
    LET range == DrawRange(full, pos, BufferSize)
    IN  {BatchIdx(r) : r \in Randint(range[1], range[2])}

\* C25: the rows sample can draw in a column are the rows 0 .. pos - 1
\* while full is false, and all rows but pos once full is true.
C25_DrawSetExact ==
    DrawSet = IF full THEN Slots \ {pos} ELSE 0 .. (pos - 1)

\* C26: an add of at most BufferSize rows at pos with pos + data_len >
\* BufferSize returns, leaving payload row i (from 0) in slot pos + i for
\* i < BufferSize - pos and in slot i - (BufferSize - pos) for the other
\* rows, in every field.
C26_WrapSplitsPayload ==
    [][\A data_len \in 1 .. BufferSize :
         (AddStep(<<data_len, NEnvs>>) /\ pos + data_len > BufferSize) =>
            /\ last'.err = "none"
            /\ \A k \in Keys : \A e \in Envs : \A i \in 0 .. (data_len - 1) :
                  buf'[k][IF i < BufferSize - pos THEN pos + i
                          ELSE i - (BufferSize - pos)][e] =
                     Val(k, total + i + 1, e)]_vars

\* C27: an add whose payload omits a field the buffer has raises and
\* leaves every slot as it was.
C27_OmittedFieldRejected ==
    [][\A data \in PartialPayloads :
         (Add(data) /\ ~(DOMAIN buf \subseteq DOMAIN data.td)) =>
            last'.err # "none" /\ buf' = buf]_vars

\* C28 as stated: once an add has returned, sample returns a minibatch for
\* every batch size from 1 to the capacity, whatever the capacity.
C28_SampleReturnsAfterAdd ==
    (/\ sized.last.op = "sample" /\ sized.rows > 0
     /\ sized.last.arg >= 1 /\ sized.last.arg <= sized.buffer_size) =>
       sized.last.err = "none"

\* C28 amended: once an add has returned on a buffer of capacity two or
\* more, sample returns a minibatch for every batch size from 1 to the
\* capacity.
C28_SampleReturnsAfterAddFromTwo ==
    (/\ sized.last.op = "sample" /\ sized.rows > 0
     /\ sized.buffer_size >= 2
     /\ sized.last.arg >= 1 /\ sized.last.arg <= sized.buffer_size) =>
       sized.last.err = "none"

\* sample of as many rows as the capacity returned on a buffer of capacity
\* two or more that holds one row.
C28_Witness ==
    /\ sized.buffer_size >= 2 /\ sized.rows = 1 /\ ~sized.full
    /\ sized.last = [op |-> "sample", arg |-> sized.buffer_size,
                     err |-> "none"]

\* C29: an add of another ReplayBuffer that returns moves the cursor by the
\* number of rows written into the source and leaves, in the slots it
\* wrote, rows that were written into the source.
C29_OnlySourceRowsCopied ==
    [][\A data \in SourceBuffers :
         (Add(data) /\ last'.err = "none") =>
            /\ total' - total = data.written
            /\ \A e \in Envs : \A i \in 0 .. (data.shape[1] - 1) :
                  i < total' - total =>
                     buf'["observations"][(pos + i) % BufferSize][e].n > 0]_vars

\* C30: Step leaves ACTION_MAP as the module defines it.
C30_ActionMapUnchanged == mine.action_map = ACTION_MAP

====
